---- MODULE Spec2Model ----
(***************************************************************************)
(* A model of the tool-calling subsystem of gemini-ox                      *)
(* (src/src/messages/tools.rs): the tool registry Tools, the dispatch    *)
(* path Tools::invoke -> Tool::invoke -> ToolHandlerWrapper::call, and the *)
(* type-keyed resource bag ToolContext.                                  *)
(*                                                                         *)
(* Rust Strings that end up inside JSON values or error messages are       *)
(* modelled as sequences of text fragments, so that format!/to_string      *)
(* concatenation is \o and a prefix is a real prefix.  Names used as map   *)
(* keys are plain strings; Text(n) turns a name into message text.         *)
(***************************************************************************)
EXTENDS Integers, Sequences, FiniteSets, TLC

VARIABLES
    tools,      \* Tools.tools : HashMap<String, Tool>
    resources,  \* the one HashMap behind Tools.context.resources (Arc<Mutex<..>>)
    latest,     \* history: for each Tool.name ever passed to add, the last such tool
    ev          \* the last operation performed and what it returned

vars == <<tools, resources, latest, ev>>

(* The conversation loop (src/src/messages/mod.rs, test_messages_request_success) *)
VARIABLES
    pc,         \* where the loop stands
    i,          \* its iteration counter
    contents,   \* Contents: the turn sequence
    res,        \* the response of the last successful send
    called,     \* the tools whose is_called flag is set
    sends,      \* calls of GenerateContentRequest::send so far
    requests,   \* HTTP requests made so far
    lastSend,   \* the reply to the last send, and what send returned
    lastInvoke, \* what the last invoke_functions returned, and the calls it dispatched
    outcome,    \* how the loop ended
    probe       \* a response under inspection, with what its accessors returned

chatVars == <<pc, i, contents, res, called, sends, requests, lastSend, lastInvoke,
              outcome, probe>>

(* GenerateContentRequest::stream (src/src/messages/mod.rs) *)
VARIABLES
    sst,        \* state of the stream() call and of the stream it returned
    reply,      \* the HTTP reply: its status and the bytes of its body
    wire,       \* the bytes of the body not yet delivered
    chunks,     \* the chunks delivered so far (history)
    items       \* the items the returned stream has yielded

streamVars == <<sst, reply, wire, chunks, items>>

(* ToolContext values and the threads that use them (src/src/messages/tools.rs) *)
VARIABLES
    heap,       \* the HashMap behind each Arc<Mutex<..>>, by address
    torn,       \* per address: an insert into the HashMap is under way
    mutex,      \* per address: the thread holding the Mutex, 0 when free
    handles,    \* per ToolContext value: the address its Arc points to
    root,       \* per ToolContext value: the value it was cloned from (history)
    tpc,        \* per thread: where it stands in its call
    top,        \* per thread: the call it is making
    tlocal,     \* per thread: the map as the insert found it
    seen,       \* per thread: what its last get_resource found (history)
    done        \* the insertions that have returned (history)

ctxVars == <<heap, torn, mutex, handles, root, tpc, top, tlocal, seen, done>>

(* ToolBuilder (src/src/messages/tools.rs) *)
VARIABLES
    tb,         \* the builder: name, description, parameters, handler
    tbSet,      \* the last argument given to each setter (history)
    tbOut       \* the result of build, once called

buildVars == <<tb, tbSet, tbOut>>

(* GenerateContentRequestBuilder (src/src/messages/mod.rs) *)
VARIABLES
    rb,         \* the builder: contents, model, system_instruction
    rbOut       \* the result of build, once called

reqVars == <<rb, rbOut>>

(* FileUploadRequestBuilder and FileUploadRequest::send (src/src/files/mod.rs) *)
VARIABLES
    fb,         \* the builder: file_name, mime_type, data, path
    fbOut,      \* the result of build, once called
    fpc,        \* where send stands
    flog,       \* the requests issued so far, with the reply each got (history)
    fres        \* the result of send, once returned

fileVars == <<fb, fbOut, fpc, flog, fres>>

laterVars == <<ctxVars, buildVars, reqVars, fileVars>>

allVars == <<vars, chatVars, streamVars, laterVars>>

-----------------------------------------------------------------------------
(* Bounds of the model *)

MaxRes == 2         \* resource values are 1..MaxRes

-----------------------------------------------------------------------------
(* Option<T> *)

None == [some |-> FALSE]
Some(x) == [some |-> TRUE, v |-> x]

(* Result<T, E> *)
Ok(x) == [ok |-> TRUE, val |-> x]
Err(e) == [ok |-> FALSE, err |-> e]

Text(s) == <<s>>

IsPrefix(p, s) == Len(p) <= Len(s) /\ SubSeq(s, 1, Len(p)) = p

-----------------------------------------------------------------------------
(* serde_json::Value, restricted to the shapes the calls below use *)

JNull == [t |-> "null"]
JStr(s) == [t |-> "str", s |-> s]
JInt(n) == [t |-> "int", n |-> n]
JObj(f) == [t |-> "obj", f |-> f]          \* f: a set of <<key, value>> pairs
JArr(a) == [t |-> "arr", a |-> a]          \* a: a sequence of values

EmptyObject == JObj({})

HasKey(o, k) == \E p \in o.f : p[1] = k
Field(o, k) == (CHOOSE p \in o.f : p[1] = k)[2]

ArgValues ==
    { JNull,
      EmptyObject,
      JObj({<<"msg", JStr(Text("hi"))>>}),
      JObj({<<"msg", JInt(42)>>}) }

-----------------------------------------------------------------------------
(* FunctionCall and FunctionResponse *)

FunctionCall(n, a) == [name |-> n, args |-> a]
FunctionResponse(n, r) == [name |-> n, response |-> r]

RegNames == {"echo", "Echo"}
CallNames == RegNames \cup {"missing"}
Descriptions == {"d1", "d2"}

Calls == { FunctionCall(n, a) : n \in CallNames, a \in {None} \cup {Some(v) : v \in ArgValues} }

-----------------------------------------------------------------------------
(* Input shapes T of the handlers (JsonSchema + DeserializeOwned):          *)
(*   "EchoParams" : struct EchoParams { msg: String }                       *)
(*   "Value"      : serde_json::Value                                       *)

Shapes == {"EchoParams", "Value"}

(* serde's name for a value of the wrong kind (de::Unexpected).  The quote  *)
(* characters serde puts around the offending value and around field names *)
(* are left out of the fragments.                                          *)
Unexpected(v) ==
    CASE v.t = "null" -> Text("null")
      [] v.t = "int"  -> <<"integer ", "42">>
      [] v.t = "str"  -> <<"string ">> \o v.s
      [] v.t = "obj"  -> Text("map")

(* serde_json::from_value::<T>(input), with the message of its error *)
FromValue(T, input) ==
    IF T = "Value" THEN Ok(input)
    ELSE IF input.t # "obj"
         THEN Err(<<"invalid type: ">> \o Unexpected(input) \o <<", expected struct EchoParams">>)
    ELSE IF ~HasKey(input, "msg")
         THEN Err(<<"missing field ", "msg">>)
    ELSE IF Field(input, "msg").t # "str"
         THEN Err(<<"invalid type: ">> \o Unexpected(Field(input, "msg")) \o <<", expected a string">>)
    ELSE Ok([ty |-> "EchoParams", msg |-> Field(input, "msg").s])

(* serde_json::to_value(result) for the handlers' output types R *)
ToValue(out) ==
    CASE out.ty = "EchoOut"  -> Ok(JObj({<<"echo", JStr(out.echo)>>}))
      [] out.ty = "Value"    -> Ok(out.v)
      [] out.ty = "Unit"     -> Ok(JNull)
      [] out.ty = "TupleMap" -> Err(Text("key must be a string"))

(* HandlerError and its derived Serialize: {"error": <message>} *)
HandlerError(m) == [error |-> m]

(* mutant: the error serialized as a bare string instead of {"error": ..} *)
HandlerErrorToValue_Bare(e) == JStr(e.error)

HandlerErrorToValue(e) == JObj({<<"error", JStr(e.error)>>})

-----------------------------------------------------------------------------
(* ToolContext: resources is Arc<Mutex<HashMap<TypeId, Arc<dyn Any>>>>.     *)
(* A stored entry keeps the concrete type behind the dyn Any.             *)

ResTypes == {"Counter", "Config"}
ResValues == 1..MaxRes

TypeIdOf(T) == <<T>>
MutexOf(T) == <<"Mutex", T>>

(* ToolContext::push_resource: insert(TypeId::of::<T>(), Arc::new(Mutex::new(resource))) *)
PushResource(map, T, v) ==
    [k \in DOMAIN map \cup {TypeIdOf(T)} |->
        IF k = TypeIdOf(T) THEN [dyn |-> MutexOf(T), val |-> v] ELSE map[k]]

(* <dyn Any>::downcast_ref::<T>() on a stored entry *)
DowncastRef(entry, T) ==
    IF entry.dyn = TypeIdOf(T) THEN Some(entry.val) ELSE None

(* ToolContext::get_resource: get(&TypeId::of::<T>()).and_then(downcast_ref::<T>().cloned()) *)
GetResource(map, T) ==
    IF TypeIdOf(T) \in DOMAIN map THEN DowncastRef(map[TypeIdOf(T)], T) ELSE None

-----------------------------------------------------------------------------
(* User handlers (impl ToolHandler<T, R>): closures over (T, &ToolContext). *)
(*   echo   : |p: EchoParams, _| Ok(EchoOut { echo: p.msg })                *)
(*   fail   : |_: EchoParams, _| Err(HandlerError "Something went wrong!")  *)
(*   any    : |v: Value, _| Ok(v)                                           *)
(*   stash  : |_: Value, cx| { cx.clone().push_resource(Config(1)); Ok(()) }*)
(*   badout : |_: Value, _| Ok(map with tuple keys), which has no JSON form *)

Handlers == {"echo", "fail", "any", "stash", "badout"}

HandlerInput(h) ==
    IF h \in {"echo", "fail"} THEN "EchoParams"
    ELSE IF h = "test_tool_handler" THEN "TestParams"
    ELSE "Value"

(* ToolHandler::call(input, &cx): the handler's result and the shared map  *)
(* behind cx as the handler leaves it                                      *)
HandlerCall(h, props, map) ==
    CASE h = "echo"   -> [res |-> Ok([ty |-> "EchoOut", echo |-> props.msg]), map |-> map]
      [] h = "fail"   -> [res |-> Err(HandlerError(Text("Something went wrong!"))), map |-> map]
      [] h = "any"    -> [res |-> Ok([ty |-> "Value", v |-> props]), map |-> map]
      [] h = "stash"  -> [res |-> Ok([ty |-> "Unit"]), map |-> PushResource(map, "Config", 1)]
      [] h = "badout" -> [res |-> Ok([ty |-> "TupleMap"]), map |-> map]

(* mutant: a deserialization failure reported under a prefix of its own *)
ErasedCall_Prefixed(h, input, map) ==
    LET props == FromValue(HandlerInput(h), input) IN
    IF ~props.ok
    THEN [res |-> Err(HandlerError(<<"input deserialization failed: ">> \o props.err)),
          ran |-> FALSE, map |-> map]
    ELSE LET r == HandlerCall(h, props.val, map) IN
         IF ~r.res.ok
         THEN [res |-> r.res, ran |-> TRUE, map |-> r.map]
         ELSE LET j == ToValue(r.res.val) IN
              [res |-> IF j.ok THEN j ELSE Err(HandlerError(j.err)),
               ran |-> TRUE, map |-> r.map]

(* ToolHandlerWrapper::call: deserialize, run the handler, serialize.      *)
(* ran: whether the user handler was entered.                              *)
ErasedCall(h, input, map) ==
    LET props == FromValue(HandlerInput(h), input) IN
    IF ~props.ok
    THEN [res |-> Err(HandlerError(props.err)), ran |-> FALSE, map |-> map]
    ELSE LET r == HandlerCall(h, props.val, map) IN
         IF ~r.res.ok
         THEN [res |-> r.res, ran |-> TRUE, map |-> r.map]
         ELSE LET j == ToValue(r.res.val) IN
              [res |-> IF j.ok THEN j ELSE Err(HandlerError(j.err)),
               ran |-> TRUE, map |-> r.map]

-----------------------------------------------------------------------------
(* Tool and its builder *)

(* schemars root schema of T as JSON (openapi3 settings, subschemas inlined, no $schema) *)
RootSchemaFor(T) ==
    IF T = "TestParams"          \* struct TestParams { foo: String, bar: i32 }
    THEN JObj({ <<"title", JStr(Text("TestParams"))>>,
                <<"type", JStr(Text("object"))>>,
                <<"properties",
                  JObj({ <<"foo", JObj({<<"type", JStr(Text("string"))>>})>>,
                         <<"bar", JObj({ <<"type", JStr(Text("integer"))>>,
                                         <<"format", JStr(Text("int32"))>> })>> })>>,
                <<"required", JArr(<<JStr(Text("bar")), JStr(Text("foo"))>>)>> })
    ELSE IF T = "EchoParams"
    THEN JObj({ <<"title", JStr(Text("EchoParams"))>>,
                <<"type", JStr(Text("object"))>>,
                <<"properties", JObj({<<"msg", JObj({<<"type", JStr(Text("string"))>>})>>})>>,
                <<"required", JArr(<<JStr(Text("msg"))>>)>> })
    ELSE JObj({ <<"title", JStr(Text("AnyValue"))>> })

(* mutant: the title is left in *)
RemoveTitle_Keep(schema) == schema

(* parameters.as_object_mut().unwrap().remove("title") *)
RemoveTitle(schema) == JObj({p \in schema.f : p[1] # "title"})

(* Tool::builder().name(n).description(d).handler(h).build() *)
ToolWithHandler(n, d, h) ==
    [name |-> n, description |-> d,
     parameters |-> RemoveTitle(RootSchemaFor(HandlerInput(h))),
     handler |-> Some(h)]

(* Tool::builder().name(n).description(d).props::<T>().build(): no handler *)
ToolWithProps(n, d, T) ==
    [name |-> n, description |-> d,
     parameters |-> RemoveTitle(RootSchemaFor(T)),
     handler |-> None]

BuiltTools ==
    { ToolWithHandler(n, d, h) : n \in RegNames, d \in Descriptions, h \in Handlers }
    \cup { ToolWithProps(n, d, T) : n \in RegNames, d \in Descriptions, T \in Shapes }

(* mutant: a tool without a handler answers with an error response *)
ToolInvoke_AlwaysResponds(tool, input, map) ==
    IF tool.handler.some
    THEN LET r == ErasedCall(tool.handler.v, input, map) IN
         [out |-> Some(FunctionResponse(tool.name,
                     IF r.res.ok THEN r.res.val ELSE HandlerErrorToValue(r.res.err))),
          ran |-> r.ran, map |-> r.map]
    ELSE [out |-> Some(FunctionResponse(tool.name,
                     JObj({<<"error", JStr(Text("Tool has no handler"))>>}))),
          ran |-> FALSE, map |-> map]

(* mutant: the response named after the tool's description *)
ToolInvoke_NamesDescription(tool, input, map) ==
    IF tool.handler.some
    THEN LET r == ErasedCall(tool.handler.v, input, map) IN
         [out |-> Some(FunctionResponse(tool.description,
                     IF r.res.ok THEN r.res.val ELSE HandlerErrorToValue(r.res.err))),
          ran |-> r.ran, map |-> r.map]
    ELSE [out |-> None, ran |-> FALSE, map |-> map]

(* Tool::invoke(&self, input, cx) -> Option<FunctionResponse> *)
ToolInvoke(tool, input, map) ==
    IF tool.handler.some
    THEN LET r == ErasedCall(tool.handler.v, input, map) IN
         IF r.res.ok
         THEN [out |-> Some(FunctionResponse(tool.name, r.res.val)), ran |-> r.ran, map |-> r.map]
         ELSE [out |-> Some(FunctionResponse(tool.name, HandlerErrorToValue(r.res.err))),
               ran |-> r.ran, map |-> r.map]
    ELSE [out |-> None, ran |-> FALSE, map |-> map]

-----------------------------------------------------------------------------
(* Tools: the registry *)

(* mutant: entry(name).or_insert(tool), the first registration wins *)
Add_KeepFirst(reg, tool) ==
    [n \in DOMAIN reg \cup {tool.name} |-> IF n \in DOMAIN reg THEN reg[n] ELSE tool]

(* mutant: the entry is stored under the tool's description *)
Add_KeyedByDescription(reg, tool) ==
    [n \in DOMAIN reg \cup {tool.description} |->
        IF n = tool.description THEN tool ELSE reg[n]]

(* Tools::add: self.tools.insert(tool.name.clone(), tool) *)
Add(reg, tool) ==
    [n \in DOMAIN reg \cup {tool.name} |-> IF n = tool.name THEN tool ELSE reg[n]]

(* Tools::get_tool: self.tools.get(tool_name) *)
GetTool(reg, name) == IF name \in DOMAIN reg THEN Some(reg[name]) ELSE None

(* #[derive(Serialize)] for Tool: name, description, parameters; the handler *)
(* is #[serde(skip)]                                                        *)
SerializeTool(tool) ==
    JObj({<<"name", JStr(Text(tool.name))>>,
          <<"description", JStr(Text(tool.description))>>,
          <<"parameters", tool.parameters>>})

(* the orders self.tools.values() of a HashMap may iterate in *)
ValuesOrders(reg) ==
    {o \in [1..Cardinality(DOMAIN reg) -> DOMAIN reg] :
        \A a, b \in DOMAIN o : a # b => o[a] # o[b]}

(* the key of SerializedTools::function_declarations: the struct carries    *)
(* #[serde(rename = "camelCase")], which renames the struct and leaves the  *)
(* field name as it is written                                              *)
DeclarationsKey == "function_declarations"

(* impl Serialize for Tools, with the values iterated in order o *)
SerializeTools(reg, o) ==
    JObj({<<DeclarationsKey, JArr([n \in DOMAIN o |-> SerializeTool(reg[o[n]])])>>})

(* mutant: absent args replaced by an empty object *)
ArgsOrNull_EmptyObject(args) == IF args.some THEN args.v ELSE EmptyObject

(* function_call.args.as_ref().unwrap_or(&Value::Null).clone() *)
ArgsOrNull(args) == IF args.some THEN args.v ELSE JNull

(* mutant: a name that is not registered falls back to any registered tool *)
ToolsInvoke_Fallback(reg, map, call) ==
    IF call.name \in DOMAIN reg
    THEN ToolInvoke(reg[call.name], ArgsOrNull(call.args), map)
    ELSE IF DOMAIN reg # {}
    THEN ToolInvoke(reg[CHOOSE n \in DOMAIN reg : TRUE], ArgsOrNull(call.args), map)
    ELSE [out |-> None, ran |-> FALSE, map |-> map]

(* mutant: the handler is given a private copy of the context *)
ToolsInvoke_PrivateContext(reg, map, call) ==
    IF call.name \in DOMAIN reg
    THEN [ToolInvoke(reg[call.name], ArgsOrNull(call.args), map) EXCEPT !.map = map]
    ELSE [out |-> None, ran |-> FALSE, map |-> map]

(* Tools::invoke(&self, function_call) -> Option<FunctionResponse> *)
ToolsInvoke(reg, map, call) ==
    LET found == GetTool(reg, call.name) IN
    IF found.some
    THEN ToolInvoke(found.v, ArgsOrNull(call.args), map)
    ELSE [out |-> None, ran |-> FALSE, map |-> map]

-----------------------------------------------------------------------------
(* The state machine *)

EmptyMap == [k \in {} |-> None]

(* Tools::default() *)
ToolsInit ==
    /\ tools = EmptyMap
    /\ resources = EmptyMap
    /\ latest = EmptyMap
    /\ ev = [op |-> "new"]

(* before the conversation loop is entered *)
ChatInit ==
    /\ pc = "idle"
    /\ i = 0
    /\ contents = << >>
    /\ res = None
    /\ called = {}
    /\ sends = 0
    /\ requests = 0
    /\ lastSend = None
    /\ lastInvoke = None
    /\ outcome = None
    /\ probe = None

(* before stream() is called *)
StreamInit ==
    /\ sst = "new"
    /\ reply = None
    /\ wire = << >>
    /\ chunks = << >>
    /\ items = << >>

MaxHandles == 3     \* most ToolContext values alive
Threads == {1, 2}

(* one ToolContext::default(), no thread in a call *)
CtxInit ==
    /\ heap = [a \in {1} |-> EmptyMap]
    /\ torn = [a \in {1} |-> FALSE]
    /\ mutex = [a \in {1} |-> 0]
    /\ handles = <<1>>
    /\ root = <<1>>
    /\ tpc = [t \in Threads |-> "idle"]
    /\ top = [t \in Threads |-> None]
    /\ tlocal = [t \in Threads |-> EmptyMap]
    /\ seen = [t \in Threads |-> None]
    /\ done = {}

(* Tool::builder(): ToolBuilder::default() *)
BuildInit ==
    /\ tb = [name |-> None, description |-> None, parameters |-> None, handler |-> None]
    /\ tbSet = [name |-> None, description |-> None, shape |-> None, handler |-> None]
    /\ tbOut = None

(* GenerateContentRequestBuilder::new *)
ReqInit ==
    /\ rb = [contents |-> None, model |-> None, system_instruction |-> None]
    /\ rbOut = None

(* FileUploadRequestBuilder::new *)
FileInit ==
    /\ fb = [file_name |-> None, mime_type |-> None, data |-> None, path |-> None]
    /\ fbOut = None
    /\ fpc = "building"
    /\ flog = << >>
    /\ fres = None

Init == ToolsInit /\ ChatInit /\ StreamInit /\ CtxInit /\ BuildInit /\ ReqInit /\ FileInit

(* tools.add(tool) / with_tool(tool) *)
AddTool ==
    \E tool \in BuiltTools :
        /\ tools' = Add(tools, tool)
        /\ latest' = [n \in DOMAIN latest \cup {tool.name} |->
                         IF n = tool.name THEN tool ELSE latest[n]]
        /\ ev' = [op |-> "add", tool |-> tool, had |-> GetTool(tools, tool.name).some,
                  size |-> Cardinality(DOMAIN tools)]
        /\ UNCHANGED resources
        /\ UNCHANGED <<chatVars, streamVars, laterVars>>

(* mutant: the dispatched tool is taken out of the registry *)
Invoke_Consuming ==
    \E call \in Calls :
        LET r == ToolsInvoke(tools, resources, call) IN
        /\ ev' = [op |-> "invoke", call |-> call, out |-> r.out, ran |-> r.ran]
        /\ resources' = r.map
        /\ tools' = [n \in DOMAIN tools \ {call.name} |-> tools[n]]
        /\ UNCHANGED latest
        /\ UNCHANGED <<chatVars, streamVars, laterVars>>

(* tools.invoke(&call) *)
Invoke ==
    \E call \in Calls :
        LET r == ToolsInvoke(tools, resources, call) IN
        /\ ev' = [op |-> "invoke", call |-> call, out |-> r.out, ran |-> r.ran]
        /\ resources' = r.map
        /\ UNCHANGED <<tools, latest>>
        /\ UNCHANGED <<chatVars, streamVars, laterVars>>

(* tools.push_resource(v) / with_resource(v) / context.push_resource(v) *)
PushRes ==
    \E T \in ResTypes, v \in ResValues :
        /\ resources' = PushResource(resources, T, v)
        /\ ev' = [op |-> "push_resource", ty |-> T, val |-> v]
        /\ UNCHANGED <<tools, latest>>
        /\ UNCHANGED <<chatVars, streamVars, laterVars>>

(* context.get_resource::<T>() *)
GetRes ==
    \E T \in ResTypes :
        /\ ev' = [op |-> "get_resource", ty |-> T, out |-> GetResource(resources, T)]
        /\ UNCHANGED <<tools, resources, latest>>
        /\ UNCHANGED <<chatVars, streamVars, laterVars>>

(* serde_json::to_value(&tools) *)
Serialize ==
    \E o \in ValuesOrders(tools) :
        /\ ev' = [op |-> "serialize", out |-> SerializeTools(tools, o), order |-> o]
        /\ UNCHANGED <<tools, resources, latest>>
        /\ UNCHANGED <<chatVars, streamVars, laterVars>>

Next == AddTool \/ Invoke \/ PushRes \/ GetRes \/ Serialize

Spec == Init /\ [][Next]_allVars

TypeOK ==
    /\ DOMAIN tools \subseteq RegNames
    /\ \A n \in DOMAIN tools : tools[n] \in BuiltTools
    /\ DOMAIN resources \subseteq {TypeIdOf(T) : T \in ResTypes}

-----------------------------------------------------------------------------
(* Properties of the dispatcher, the registry and the context              *)

Dispatched == ev.op = "invoke"
Registered == ev.call.name \in DOMAIN tools
Target == tools[ev.call.name]
ErrorObject(m) == JObj({<<"error", JStr(m)>>})

Malformed ==
    /\ Dispatched /\ Registered /\ Target.handler.some
    /\ ev.call.args.some
    /\ ~FromValue(HandlerInput(Target.handler.v), ev.call.args.v).ok

(* C3 (as stated): malformed args give a response whose error text starts  *)
(* with "input deserialization failed: ", and the handler is not run.      *)
C3_DeserializationPrefix ==
    Malformed =>
        /\ ev.out.some
        /\ HasKey(ev.out.v.response, "error")
        /\ IsPrefix(<<"input deserialization failed: ">>,
                    Field(ev.out.v.response, "error").s)
        /\ ~ev.ran

(* C3 (amended): for a tool with a handler, malformed args give the        *)
(* response {"error": <the deserializer's own message>} under the tool's   *)
(* name, with no prefix added, and the handler is not run.                 *)
C3_DeserializerMessage ==
    Malformed =>
        /\ ev.out = Some(FunctionResponse(Target.name,
              ErrorObject(FromValue(HandlerInput(Target.handler.v), ev.call.args.v).err)))
        /\ ~ev.ran

C3_Witness ==
    /\ Malformed
    /\ ev.call.args.v = JObj({<<"msg", JInt(42)>>})
    /\ ev.out.v.response =
          ErrorObject(<<"invalid type: ", "integer ", "42", ", expected a string">>)

(* the response the registry gives now to the last call's name with args a *)
ResponseWithArgs(a) ==
    ToolsInvoke(tools, resources, FunctionCall(ev.call.name, a)).out

(* C4 (as stated): a call with args absent gets the response the same call *)
(* gets with args = {}.                                                    *)
C4_AbsentIsEmptyObject ==
    (Dispatched /\ Registered /\ ~ev.call.args.some) =>
        ev.out = ResponseWithArgs(Some(EmptyObject))

(* C4 (amended): a call with args absent gets the response the same call   *)
(* gets with args = null.                                                  *)
C4_AbsentIsNull ==
    (Dispatched /\ Registered /\ ~ev.call.args.some) =>
        ev.out = ResponseWithArgs(Some(JNull))

C4_Witness ==
    /\ Dispatched /\ Registered /\ ~ev.call.args.some
    /\ Target.handler = Some("echo")
    /\ ev.out = Some(FunctionResponse(ev.call.name,
          ErrorObject(<<"invalid type: ", "null", ", expected struct EchoParams">>)))
    /\ ev.out # ResponseWithArgs(Some(EmptyObject))

(* the handler of the last call ran and returned Err *)
HandlerFailed ==
    /\ Dispatched /\ ev.ran
    /\ Target.handler = Some("fail")

(* C5: when the handler fails with message m, invoke returns the response  *)
(* {"error": m} under the tool's name.                                     *)
C5_HandlerErrorResponse ==
    HandlerFailed =>
        ev.out = Some(FunctionResponse(Target.name,
                        ErrorObject(Text("Something went wrong!"))))

C5_Witness == HandlerFailed /\ ev.call.name = "Echo"

(* the JSON form of what the handlers return on input v *)
ExpectedOutput(h, v) ==
    CASE h = "echo"  -> JObj({<<"echo", Field(v, "msg")>>})
      [] h = "any"   -> v
      [] h = "stash" -> JNull

(* the handler of the last call ran, returned Ok, and its output has a JSON form *)
HandlerSucceeded ==
    /\ Dispatched /\ ev.ran
    /\ Target.handler.v \in {"echo", "any", "stash"}

(* C6: when the handler succeeds, invoke returns a response holding the    *)
(* JSON form of the handler's output, under the call's name.               *)
C6_SuccessResponse ==
    HandlerSucceeded =>
        ev.out = Some(FunctionResponse(ev.call.name,
                        ExpectedOutput(Target.handler.v, ArgsOrNull(ev.call.args))))

C6_Witness ==
    /\ HandlerSucceeded
    /\ ev.call = FunctionCall("echo", Some(JObj({<<"msg", JStr(Text("hi"))>>})))
    /\ ev.out = Some(FunctionResponse("echo", JObj({<<"echo", JStr(Text("hi"))>>})))

(* C7: lookup of a name returns the tool most recently registered under    *)
(* exactly that name, and nothing for a name never registered; the         *)
(* registry holds one entry per distinct name, so registering under an     *)
(* existing name replaces the entry and adds none.                         *)
C7_LookupLatest ==
    /\ \A n \in CallNames :
          GetTool(tools, n) = IF n \in DOMAIN latest THEN Some(latest[n]) ELSE None
    /\ Cardinality(DOMAIN tools) = Cardinality(DOMAIN latest)
    /\ (ev.op = "add" /\ ev.had) =>
          (GetTool(tools, ev.tool.name) = Some(ev.tool)
           /\ Cardinality(DOMAIN tools) = ev.size)

C7_Witness ==
    /\ ev.op = "add" /\ ev.had
    /\ ev.tool.name = "echo" /\ ev.tool.handler = Some("fail")
    /\ GetTool(tools, "echo") = Some(ev.tool)
    /\ GetTool(tools, "Echo").some /\ GetTool(tools, "Echo").v.handler = Some("echo")
    /\ GetTool(tools, "missing") = None

(* C8: a dispatch leaves the registry as it was: the same names, each with *)
(* the same tool (name, description, schema and handler).                  *)
C8_InvokeKeepsRegistry == [][ev'.op = "invoke" => tools' = tools]_vars

C8_Witness ==
    /\ Dispatched /\ Registered /\ ev.ran
    /\ Cardinality(DOMAIN tools) = 2

(* C9: get_resource::<T>() on a type that was set returns a copy of the    *)
(* value last set for it, and nothing for a type never set.                *)
C9_SetGetRoundTrip ==
    ev.op = "get_resource" =>
        ev.out = IF TypeIdOf(ev.ty) \in DOMAIN resources
                 THEN Some(resources[TypeIdOf(ev.ty)].val)
                 ELSE None

-----------------------------------------------------------------------------
(* Content, Part and GenerateContentResponse (src/src/messages/message.rs,  *)
(* src/src/messages/mod.rs)                                                 *)

MaxParts == 3       \* most parts in a turn of an inspected response
MaxIter == 3        \* the bound of the loop's check "if i > 3"

(* Part: Text, FunctionCall, FunctionResponse *)
TextPart(s) == [k |-> "text", text |-> s]
CallPart(c) == [k |-> "fc", call |-> c]
ResponsePart(r) == [k |-> "fr", resp |-> r]

(* Content::User { parts } / Content::Model { parts } *)
Content(role, parts) == [role |-> role, parts |-> parts]

(* Content::user() *)
ContentUser == Content("user", << >>)

(* Content::push_part: parts.push(part.into()) *)
PushPart(c, part) == [c EXCEPT !.parts = Append(c.parts, part)]

(* impl From<&'static str> for Content: Self::user().add_part(value) *)
ContentFromStr(s) == PushPart(ContentUser, TextPart(s))

(* Content::is_empty, used by invoke_functions *)
ContentIsEmpty(c) == Len(c.parts) = 0

(* ResponseCandidate and GenerateContentResponse, with the fields the code reads *)
Candidate(c) == [content |-> c]
Response(cands) == [candidates |-> cands]

(* Parts::get_function_calls: iter().filter_map(FunctionCall parts).collect() *)
PartsGetFunctionCalls(parts) ==
    LET sel == SelectSeq(parts, LAMBDA p : p.k = "fc") IN
    [j \in 1..Len(sel) |-> sel[j].call]

(* GenerateContentResponse::content: self.candidates.first().map(|c| &c.content) *)
ResponseContent(r) ==
    IF Len(r.candidates) = 0 THEN None ELSE Some(r.candidates[1].content)

(* mutant: the calls of every candidate are collected *)
GetFunctionCalls_AllCandidates(r) ==
    LET F[n \in 0..Len(r.candidates)] ==
            IF n = 0 THEN << >>
            ELSE F[n - 1] \o PartsGetFunctionCalls(r.candidates[n].content.parts)
    IN F[Len(r.candidates)]

(* GenerateContentResponse::get_function_calls *)
GetFunctionCalls(r) ==
    LET c == ResponseContent(r) IN
    IF c.some THEN PartsGetFunctionCalls(c.v.parts) ELSE << >>

(* mutant: the turn keeps the role recorded in the candidate *)
ContentFromResponse_KeepsRole(r) == r.candidates[1].content

(* impl From<GenerateContentResponse> for Content: a Model turn with the   *)
(* parts of candidates[0]                                                  *)
ContentFromResponse(r) == Content("model", r.candidates[1].content.parts)

(* mutant: the new turn is put in front *)
ContentsPush_Front(cs, c) == <<c>> \o cs

(* Contents::push: self.0.push(message.into()) *)
ContentsPush(cs, c) == Append(cs, c)

(* Contents::with_content and Contents::add_content, which the request and *)
(* the loop call: the turn is appended                                     *)
WithContent(cs, c) == ContentsPush(cs, c)
ContentsAddContent(cs, c) == ContentsPush(cs, c)

(* GenerateContentRequest::add_content:                                    *)
(* self.contents = take(&mut self.contents).with_content(content.into())   *)
RequestAddContent(cs, c) == WithContent(cs, c)

-----------------------------------------------------------------------------
(* ToolBox, the registry the loop dispatches to.  Its tools are those of   *)
(* the test (test_tool, finish_tool) and one whose handler fails.          *)

BoxTools == {"test_tool", "finish_tool", "fail_tool"}

RandomNumber == JObj({<<"random_number", JInt(7)>>})

(* deserialization of the args into the tool's Input *)
BoxFromValue(name, input) ==
    IF name # "test_tool" THEN Ok(input)
    ELSE IF input.t # "obj"
         THEN Err(<<"invalid type: ">> \o Unexpected(input)
                  \o <<", expected struct TestHandlerProps">>)
    ELSE IF ~HasKey(input, "random_number")
         THEN Err(<<"missing field ", "random_number">>)
    ELSE Ok(input)

(* Tool::invoke of the three tools *)
BoxHandler(name, input) ==
    CASE name = "test_tool" ->
            Ok(JObj({<<"result", JStr(Text("To finish this test use [finish_test] tool"))>>}))
      [] name = "finish_tool" ->
            Ok(JObj({<<"result", JStr(Text("Congratulations! You finished the test."))>>}))
      [] name = "fail_tool" -> Err(Text("boom"))

(* ToolBox::invoke(call) -> FunctionResponse; ran: whether the handler ran *)
ToolBoxInvoke(call) ==
    IF call.name \notin BoxTools
    THEN [resp |-> FunctionResponse(call.name,
                     JObj({<<"error", JStr(<<"Tool not found: ", call.name>>)>>})),
          ran |-> FALSE]
    ELSE LET input == IF call.args.some THEN call.args.v ELSE EmptyObject
             props == BoxFromValue(call.name, input) IN
         IF ~props.ok
         THEN [resp |-> FunctionResponse(call.name,
                          JObj({<<"error", JStr(<<"input deserialization failed: ">>
                                                \o props.err)>>})),
               ran |-> FALSE]
         ELSE LET r == BoxHandler(call.name, props.val) IN
              [resp |-> FunctionResponse(call.name,
                          IF r.ok THEN r.val ELSE JObj({<<"error", JStr(r.err)>>})),
               ran |-> TRUE]

(* mutant: no early return when there is nothing to dispatch, and the      *)
(* turn returned whether or not it holds a part                            *)
InvokeFunctions_AlwaysTurn(r) ==
    LET calls == GetFunctionCalls(r)
        F[n \in 0..Len(calls)] ==
            IF n = 0 THEN ContentUser
            ELSE PushPart(F[n - 1], ResponsePart(ToolBoxInvoke(calls[n]).resp))
    IN [out |-> Some(F[Len(calls)]), invoked |-> calls]

(* mutant: each result is put in front of the ones before it *)
InvokeFunctions_Prepending(r) ==
    LET calls == GetFunctionCalls(r)
        F[n \in 0..Len(calls)] ==
            IF n = 0 THEN ContentUser
            ELSE [F[n - 1] EXCEPT !.parts =
                     <<ResponsePart(ToolBoxInvoke(calls[n]).resp)>> \o @]
    IN IF calls = << >>
       THEN [out |-> None, invoked |-> << >>]
       ELSE [out |-> IF ContentIsEmpty(F[Len(calls)]) THEN None ELSE Some(F[Len(calls)]),
             invoked |-> calls]

(* GenerateContentResponse::invoke_functions(&tools) -> Option<Content>;   *)
(* invoked: the calls handed to tools.invoke, in the order they were       *)
InvokeFunctions(r) ==
    LET calls == GetFunctionCalls(r)
        F[n \in 0..Len(calls)] ==
            IF n = 0 THEN ContentUser
            ELSE PushPart(F[n - 1], ResponsePart(ToolBoxInvoke(calls[n]).resp))
    IN IF calls = << >>
       THEN [out |-> None, invoked |-> << >>]
       ELSE [out |-> IF ContentIsEmpty(F[Len(calls)]) THEN None ELSE Some(F[Len(calls)]),
             invoked |-> calls]

(* the tools whose handler a dispatch of the calls runs *)
HandlersRun(calls) ==
    {calls[j].name : j \in {n \in 1..Len(calls) : ToolBoxInvoke(calls[n]).ran}}

-----------------------------------------------------------------------------
(* The responses the model may give *)

ChatCalls ==
    { FunctionCall("test_tool", Some(RandomNumber)),
      FunctionCall("test_tool", None),
      FunctionCall("finish_tool", None),
      FunctionCall("fail_tool", None),
      FunctionCall("nope", None) }

PartChoices == {TextPart("t")} \cup {CallPart(c) : c \in ChatCalls}

SeqsUpTo(S, n) == UNION {[1..m -> S] : m \in 0..n}

LaterCandidates ==
    { Candidate(Content("model", <<CallPart(FunctionCall("finish_tool", None))>>)),
      Candidate(Content("model", <<TextPart("t")>>)) }

(* the role a candidate's content may record *)
CandidateRoles == {"model", "user"}

(* responses put under inspection: no candidate, one, or two *)
InspectedResponses ==
    {Response(<< >>)}
    \cup { Response(<<Candidate(Content(role, ps))>>) :
              role \in CandidateRoles, ps \in SeqsUpTo(PartChoices, MaxParts) }
    \cup { Response(<<Candidate(Content(role, ps)), c>>) :
              role \in CandidateRoles, ps \in SeqsUpTo(PartChoices, MaxParts),
              c \in LaterCandidates }

(* responses the endpoint gives inside the loop *)
LoopResponses ==
    { Response(<< >>),
      Response(<<Candidate(Content("model", <<TextPart("t")>>))>>),
      Response(<<Candidate(Content("model",
                    <<CallPart(FunctionCall("test_tool", Some(RandomNumber)))>>))>>),
      Response(<<Candidate(Content("model",
                    <<CallPart(FunctionCall("finish_tool", None))>>))>>),
      Response(<<Candidate(Content("model",
                    <<CallPart(FunctionCall("nope", None)), TextPart("t"),
                      CallPart(FunctionCall("fail_tool", None))>>))>>),
      Response(<<Candidate(Content("model", <<CallPart(FunctionCall("test_tool", None))>>)),
                 Candidate(Content("model", <<CallPart(FunctionCall("finish_tool", None))>>))>>) }

-----------------------------------------------------------------------------
(* GenerateContentRequest::send (src/src/messages/mod.rs 149-174)           *)

(* the reply of the endpoint: no reply at all, or a status and a body.     *)
(* A body is the JSON of a response, a JSON error object, or not JSON.     *)
ResponseBody(r) == [kind |-> "response", resp |-> r]
ErrorBody(code, message, status, details) ==
    [kind |-> "error", code |-> code, message |-> message,
     status |-> status, details |-> details]
NotJson == [kind |-> "garbage"]

Statuses == {200, 201, 204, 400, 429, 500}

Bodies ==
    {ResponseBody(r) : r \in LoopResponses}
    \cup { ErrorBody(JStr(Text("E42")), JStr(Text("bad request")),
                     JStr(Text("INVALID_ARGUMENT")), JArr(<<JStr(Text("d"))>>)),
           ErrorBody(JInt(400), JStr(Text("bad request")),
                     JStr(Text("INVALID_ARGUMENT")), JNull),
           ErrorBody(JNull, JNull, JNull, JNull),
           NotJson }

Replies ==
    {[kind |-> "transport"]}
    \cup {[kind |-> "http", status |-> st, body |-> b] : st \in Statuses, b \in Bodies}

(* ApiRequestError *)
ReqwestError(what) == [kind |-> "ReqwestError", what |-> what]
SerdeError(what) == [kind |-> "SerdeError", what |-> what]
InvalidRequestError(code, details, message, status) ==
    [kind |-> "InvalidRequestError", code |-> code, details |-> details,
     message |-> message, status |-> status]
InvalidEventData(data) == [kind |-> "InvalidEventData", data |-> data]
RateLimit == [kind |-> "RateLimit"]

(* e["error"][field] of the body read as a Value: Null where there is none *)
ErrorField(body, field) ==
    IF body.kind = "error" THEN body[field] ELSE JNull

(* Value::as_str().map(String::from) *)
AsStr(v) == IF v.t = "str" THEN Some(v.s) ELSE None

(* the arm "200 | 201" *)
IsSuccess(status) == status \in {200, 201}

(* code: e["error"]["code"].as_str().map(String::from) *)
ErrorCode(body) == AsStr(ErrorField(body, "code"))

(* the result of send, and the number of requests it made *)
Send(rep) ==
    [requests |-> 1,
     result |->
        IF rep.kind = "transport" THEN Err(ReqwestError("send"))
        ELSE IF IsSuccess(rep.status)
             THEN IF rep.body.kind = "response" THEN Ok(rep.body.resp)
                  ELSE Err(ReqwestError("decode"))
        ELSE IF rep.status = 429 THEN Err(RateLimit)
        ELSE IF rep.body.kind = "garbage" THEN Err(ReqwestError("decode"))
        ELSE Err(InvalidRequestError(
                    ErrorCode(rep.body),
                    ErrorField(rep.body, "details"),
                    LET m == AsStr(ErrorField(rep.body, "message")) IN
                        IF m.some THEN m.v ELSE Text("no message"),
                    AsStr(ErrorField(rep.body, "status"))))]

-----------------------------------------------------------------------------
(* The conversation loop (src/src/messages/mod.rs 566-633)                  *)

Panic(msg) == [kind |-> "panic", msg |-> msg]

(* mutant: the loop lets one more iteration through *)
CapExceeded_OneMore(n) == n > MaxIter + 1

(* the check at the top of the loop: if i > 3 *)
CapExceeded(n) == n > MaxIter

(* Content::from(response): value.candidates[0] panics without a candidate *)
IntoContent(r) ==
    IF Len(r.candidates) = 0 THEN Err(Panic("index out of bounds"))
    ELSE Ok(ContentFromResponse(r))

(* a response is put under inspection: its calls, its content, the turn it *)
(* converts to and what invoke_functions makes of it                       *)
Inspect ==
    /\ pc = "idle"
    /\ \E r \in InspectedResponses :
          probe' = Some([resp |-> r,
                         content |-> ResponseContent(r),
                         converted |-> IntoContent(r),
                         calls |-> GetFunctionCalls(r),
                         turn |-> InvokeFunctions(r).out,
                         invoked |-> InvokeFunctions(r).invoked])
    /\ pc' = "inspected"
    /\ UNCHANGED <<i, contents, res, called, sends, requests,
                   lastSend, lastInvoke, outcome>>
    /\ UNCHANGED <<vars, streamVars, laterVars>>

(* the request is built with its first turn; let mut i = 0 *)
StartLoop ==
    /\ pc = "idle"
    /\ pc' = "top"
    /\ contents' = WithContent(<< >>, ContentFromStr("This is testing environent"))
    /\ probe' = None
    /\ UNCHANGED <<i, res, called, sends, requests, lastSend, lastInvoke, outcome>>
    /\ UNCHANGED <<vars, streamVars, laterVars>>

(* if i > 3 { panic!("Test failed") }; i += 1 *)
LoopTop ==
    /\ pc = "top"
    /\ IF CapExceeded(i)
       THEN /\ pc' = "capped"
            /\ outcome' = Some(Panic("Test failed"))
            /\ i' = i
       ELSE /\ pc' = "send"
            /\ i' = i + 1
            /\ outcome' = outcome
    /\ UNCHANGED <<contents, res, called, sends, requests, lastSend, lastInvoke, probe>>
    /\ UNCHANGED <<vars, streamVars, laterVars>>

(* let res = match request.send().await { Ok(res) => res, Err(err) => panic!("{err}") } *)
LoopSend ==
    /\ pc = "send"
    /\ \E rep \in Replies :
          LET s == Send(rep) IN
          /\ sends' = sends + 1
          /\ requests' = requests + s.requests
          /\ lastSend' = Some([reply |-> rep, result |-> s.result])
          /\ IF s.result.ok
             THEN /\ res' = Some(s.result.val)
                  /\ pc' = "add"
                  /\ outcome' = outcome
             ELSE /\ res' = res
                  /\ pc' = "panicked"
                  /\ outcome' = Some([kind |-> "panic", err |-> s.result.err])
    /\ UNCHANGED <<i, contents, called, lastInvoke, probe>>
    /\ UNCHANGED <<vars, streamVars, laterVars>>

(* contents.add_content(res.clone()); the conversion indexes candidates[0] *)
LoopAddModelTurn ==
    /\ pc = "add"
    /\ IF Len(res.v.candidates) = 0
       THEN /\ pc' = "panicked"
            /\ outcome' = Some(Panic("index out of bounds"))
            /\ contents' = contents
       ELSE /\ pc' = "invoke"
            /\ contents' = ContentsAddContent(contents, ContentFromResponse(res.v))
            /\ outcome' = outcome
    /\ UNCHANGED <<i, res, called, sends, requests, lastSend, lastInvoke, probe>>
    /\ UNCHANGED <<vars, streamVars, laterVars>>

(* match res.invoke_functions(&tools).await { None => add_content(text),   *)
(* Some(results) => add_content(results) }                                 *)
LoopInvoke ==
    /\ pc = "invoke"
    /\ LET r == InvokeFunctions(res.v) IN
       /\ lastInvoke' = Some(r)
       /\ called' = called \cup HandlersRun(r.invoked)
       /\ contents' = ContentsAddContent(contents,
                         IF r.out.some THEN r.out.v
                         ELSE ContentFromStr("Follow instructions and use tools!"))
    /\ pc' = "check"
    /\ UNCHANGED <<i, res, sends, requests, lastSend, outcome, probe>>
    /\ UNCHANGED <<vars, streamVars, laterVars>>

(* if finish_tool.is_called && test_tool.is_called { break } *)
LoopCheck ==
    /\ pc = "check"
    /\ IF {"finish_tool", "test_tool"} \subseteq called
       THEN /\ pc' = "passed"
            /\ outcome' = Some([kind |-> "passed"])
       ELSE /\ pc' = "top"
            /\ outcome' = outcome
    /\ UNCHANGED <<i, contents, res, called, sends, requests, lastSend, lastInvoke, probe>>
    /\ UNCHANGED <<vars, streamVars, laterVars>>

ChatNext ==
    \/ Inspect
    \/ StartLoop
    \/ LoopTop
    \/ LoopSend
    \/ LoopAddModelTurn
    \/ LoopInvoke
    \/ LoopCheck

SpecChat == Init /\ [][ChatNext]_allVars

-----------------------------------------------------------------------------
(* Claims about the collection and dispatch of function calls              *)

(* the FunctionCall parts among parts, first to last *)
CallsAmong(parts) ==
    LET F[n \in 0..Len(parts)] ==
            IF n = 0 THEN << >>
            ELSE IF parts[n].k = "fc" THEN Append(F[n - 1], parts[n].call)
            ELSE F[n - 1]
    IN F[Len(parts)]

(* the calls of candidate 0 of the inspected response *)
FirstCandidateCalls ==
    IF Len(probe.v.resp.candidates) = 0 THEN << >>
    ELSE CallsAmong(probe.v.resp.candidates[1].content.parts)

HasCall(cand) == \E n \in 1..Len(cand.content.parts) : cand.content.parts[n].k = "fc"

(* C11: get_function_calls returns exactly the FunctionCall parts of the   *)
(* first candidate's content, in the order they have among its parts; the  *)
(* calls of later candidates are not in the result.                        *)
C11_FirstCandidateOnly ==
    probe.some => probe.v.calls = FirstCandidateCalls

C11_Witness ==
    /\ probe.some
    /\ Len(probe.v.resp.candidates) = 2
    /\ HasCall(probe.v.resp.candidates[2])
    /\ Len(probe.v.resp.candidates[1].content.parts) = 3
    /\ probe.v.resp.candidates[1].content.parts[2].k = "text"
    /\ Len(probe.v.calls) = 2
    /\ probe.v.calls[1].name = "nope"
    /\ probe.v.calls[2].name = "fail_tool"

(* C12: when the first candidate holds no FunctionCall part (or there is   *)
(* no candidate), invoke_functions returns no turn and hands no call to    *)
(* the tools; the response itself is left as it was.                       *)
C12_NoCallsNoTurn ==
    /\ probe.some /\ FirstCandidateCalls = << >> =>
          /\ probe.v.turn = None
          /\ probe.v.invoked = << >>
    /\ pc = "check" /\ CallsAmong(res.v.candidates[1].content.parts) = << >> =>
          /\ lastInvoke.v.out = None
          /\ lastInvoke.v.invoked = << >>
          /\ lastSend.v.result = Ok(res.v)

C12_Witness ==
    /\ probe.some
    /\ Len(probe.v.resp.candidates) = 2
    /\ ~HasCall(probe.v.resp.candidates[1])
    /\ HasCall(probe.v.resp.candidates[2])
    /\ Len(probe.v.resp.candidates[1].content.parts) > 0
    /\ probe.v.turn = None

-----------------------------------------------------------------------------
(* Claims about the loop                                                   *)

(* every model turn of the conversation asks for a tool *)
AlwaysRequestsTool ==
    \A n \in 1..Len(contents) :
        contents[n].role = "model" => CallsAmong(contents[n].parts) # << >>

C15_AppendOnly ==
    [][/\ contents' # contents =>
             /\ Len(contents') = Len(contents) + 1
             /\ SubSeq(contents', 1, Len(contents)) = contents
             /\ RequestAddContent(contents, contents'[Len(contents')]) = contents'
       /\ pc = "add" /\ pc' = "invoke" =>
             contents'[Len(contents')] = Content("model", res.v.candidates[1].content.parts)
       /\ pc = "invoke" /\ pc' = "check" =>
             /\ contents'[Len(contents') - 1] =
                    Content("model", res.v.candidates[1].content.parts)
             /\ contents'[Len(contents')].role = "user"
             /\ lastInvoke'.v.out.some => contents'[Len(contents')] = lastInvoke'.v.out.v
      ]_allVars

C15_Witness ==
    /\ pc = "check"
    /\ Len(contents) = 5
    /\ lastInvoke.v.out.some
    /\ contents[5] = lastInvoke.v.out.v
    /\ contents[4].role = "model"
    /\ contents[2] # contents[4]

-----------------------------------------------------------------------------
(* Claims about send                                                       *)

(* C20 as stated: a 2xx status with a parseable body returns the response, *)
(* 429 returns RateLimit, another status with an error body returns        *)
(* InvalidRequestError with the body's code, message, status and details,  *)
(* and each send makes one request.                                        *)
C20_StatusMapping ==
    /\ requests = sends
    /\ lastSend.some /\ lastSend.v.reply.kind = "http" =>
          LET rp == lastSend.v.reply
              rs == lastSend.v.result IN
          /\ rp.status \in 200..299 /\ rp.body.kind = "response" => rs = Ok(rp.body.resp)
          /\ rp.status = 429 => rs = Err(RateLimit)
          /\ rp.status \notin 200..299 /\ rp.status # 429 /\ rp.body.kind = "error" =>
                /\ ~rs.ok
                /\ rs.err.kind = "InvalidRequestError"
                /\ rp.body.code # JNull => rs.err.code.some
                /\ rp.body.message # JNull => rs.err.message = rp.body.message.s
                /\ rp.body.status # JNull => rs.err.status = Some(rp.body.status.s)
                /\ rs.err.details = rp.body.details

-----------------------------------------------------------------------------
(* GenerateContentRequest::stream (src/src/messages/mod.rs 176-212)         *)
(* The body of the reply is a sequence of pieces of text; a chunk is a run  *)
(* of consecutive pieces.  The line prefix "data: " is the two pieces "da"  *)
(* and "ta: ", the JSON of fragment f the two pieces "{f" and "f}".         *)

MaxFrames == 2      \* most frames in the body of a reply
MaxChunks == 3      \* most chunks a body is delivered in

FragmentIds == {"a", "b"}
Halves == [a |-> <<"{a", "a}">>, b |-> <<"{b", "b}">>]
Junk == <<"oops">>                 \* a payload that is not the JSON of a response
InvalidUtf8 == "0xFF"              \* bytes that are not UTF-8
Blank == "\n\n"                    \* the line ends that close a frame
DataPrefix == <<"da", "ta: ">>

(* the GenerateContentResponse the JSON of fragment f stands for *)
Fragment(f) == Response(<<Candidate(Content("model", <<TextPart(f)>>))>>)

(* one frame: data: <payload> followed by a blank line *)
Frame(payload) == DataPrefix \o payload \o <<Blank>>

Payloads == {Halves[f] : f \in FragmentIds} \cup {Junk}

RECURSIVE Concat(_)
Concat(ss) == IF ss = << >> THEN << >> ELSE Head(ss) \o Concat(Tail(ss))

(* bodies made of complete frames *)
FrameBodies == {Concat([n \in 1..Len(ps) |-> Frame(ps[n])]) : ps \in SeqsUpTo(Payloads, MaxFrames)}

(* a body with bytes that are not UTF-8 in its payload *)
BadBytesBody == DataPrefix \o <<InvalidUtf8, Blank>>

(* the JSON error object a rejected request is answered with *)
ErrorObjectBody == <<"{error}">>

StreamReplies ==
    {[kind |-> "transport"]}
    \cup {[kind |-> "http", status |-> 200, body |-> b] : b \in FrameBodies \cup {BadBytesBody}}
    \cup {[kind |-> "http", status |-> st, body |-> ErrorObjectBody] : st \in {429, 500}}

(* s.starts_with("data: ") *)
StartsWithData(c) == Len(c) >= 2 /\ SubSeq(c, 1, 2) = DataPrefix

(* s.trim_start_matches("data: "): every leading repetition is removed *)
RECURSIVE TrimStartMatches(_)
TrimStartMatches(c) ==
    IF StartsWithData(c) THEN TrimStartMatches(SubSeq(c, 3, Len(c))) ELSE c

(* JSON text with the white space around it taken off *)
RECURSIVE TrimWhitespace(_)
TrimWhitespace(t) ==
    IF t # << >> /\ Head(t) = Blank THEN TrimWhitespace(Tail(t))
    ELSE IF t # << >> /\ t[Len(t)] = Blank THEN TrimWhitespace(SubSeq(t, 1, Len(t) - 1))
    ELSE t

(* serde_json::from_str::<GenerateContentResponse>(json_data)               *)
(*     .map_err(ApiRequestError::SerdeError)                                *)
FromStr(t) ==
    IF \E f \in FragmentIds : TrimWhitespace(t) = Halves[f]
    THEN Ok(Fragment(CHOOSE f \in FragmentIds : TrimWhitespace(t) = Halves[f]))
    ELSE Err(SerdeError("from_str"))

(* mutant: a payload that does not parse is reported as InvalidEventData   *)
(* with the text of the chunk                                              *)
DecodeData_InvalidEventData(c) ==
    IF FromStr(TrimStartMatches(c)).ok THEN FromStr(TrimStartMatches(c))
    ELSE Err(InvalidEventData(c))

(* the arm "s if s.starts_with("data: ")" *)
DecodeData(c) == FromStr(TrimStartMatches(c))

(* the closure of filter_map on Ok(bytes): panic, no item, or one item *)
DecodeChunk(c) ==
    IF \E n \in 1..Len(c) : c[n] = InvalidUtf8
    THEN [panic |-> TRUE, item |-> None]
    ELSE IF c = << >> THEN [panic |-> FALSE, item |-> None]
    ELSE IF StartsWithData(c) THEN [panic |-> FALSE, item |-> Some(DecodeData(c))]
    ELSE [panic |-> FALSE, item |-> Some(Err(InvalidEventData(c)))]

(* client.post(&url).json(self).send().await.unwrap().bytes_stream(): the  *)
(* status of the reply is not looked at                                    *)
StreamOpen ==
    /\ sst = "new"
    /\ \E rep \in StreamReplies :
          /\ reply' = Some(rep)
          /\ IF rep.kind = "transport"
             THEN /\ sst' = "panicked"
                  /\ wire' = wire
             ELSE /\ sst' = "open"
                  /\ wire' = rep.body
    /\ UNCHANGED <<chunks, items>>
    /\ UNCHANGED <<vars, chatVars, laterVars>>

(* the byte stream yields Ok(bytes): the next pieces of the body *)
StreamChunk ==
    /\ sst = "open"
    /\ Len(chunks) < MaxChunks
    /\ \E n \in 0..Len(wire) :
          LET c == SubSeq(wire, 1, n)
              d == DecodeChunk(c) IN
          /\ wire' = SubSeq(wire, n + 1, Len(wire))
          /\ chunks' = Append(chunks, c)
          /\ sst' = IF d.panic THEN "panicked" ELSE sst
          /\ items' = IF d.item.some THEN Append(items, d.item.v) ELSE items
    /\ UNCHANGED reply
    /\ UNCHANGED <<vars, chatVars, laterVars>>

(* the byte stream yields Err(e) and ends: Some(Err(ReqwestError(e))) *)
StreamReadError ==
    /\ sst = "open"
    /\ items' = Append(items, Err(ReqwestError("read")))
    /\ sst' = "broken"
    /\ UNCHANGED <<reply, wire, chunks>>
    /\ UNCHANGED <<vars, chatVars, laterVars>>

(* mutant: the end of the body is reported as an error item *)
StreamEnd_Reports ==
    /\ sst = "open"
    /\ wire = << >>
    /\ sst' = "done"
    /\ items' = Append(items, Err(InvalidEventData(<< >>)))
    /\ UNCHANGED <<reply, wire, chunks>>
    /\ UNCHANGED <<vars, chatVars, laterVars>>

(* the byte stream ends: the filtered stream ends with it *)
StreamEnd ==
    /\ sst = "open"
    /\ wire = << >>
    /\ sst' = "done"
    /\ UNCHANGED <<reply, wire, chunks, items>>
    /\ UNCHANGED <<vars, chatVars, laterVars>>

StreamNext ==
    \/ StreamOpen
    \/ StreamChunk
    \/ StreamReadError
    \/ StreamEnd

SpecStream == Init /\ [][StreamNext]_allVars

-----------------------------------------------------------------------------
(* Claims about stream                                                     *)

(* the reply is a 200 whose body is the one frame of a fragment *)
SingleFrame ==
    /\ reply.some
    /\ reply.v.kind = "http"
    /\ \E f \in FragmentIds : reply.v.body = Frame(Halves[f])

(* the chunks delivered, the empty ones left out *)
Delivered == SelectSeq(chunks, LAMBDA c : c # << >>)

(* C16 as stated: one frame, however it is cut into chunks, gives exactly  *)
(* the one item it gives as a single chunk, and no error item.             *)
C16_ChunkingIndependent ==
    sst = "done" /\ SingleFrame => items = <<DecodeChunk(reply.v.body).item.v>>

(* C17 as stated: a complete frame whose payload does not parse gives      *)
(* exactly one error item, InvalidEventData carrying the raw text.         *)
C17_InvalidEventDataForPayload ==
    sst = "done" /\ reply.v.body = Frame(Junk) /\ Delivered = <<reply.v.body>> =>
        items = <<Err(InvalidEventData(reply.v.body))>>

(* C17: a chunk of valid UTF-8 that begins with "data: " and whose rest    *)
(* does not parse as a response gives exactly one error item, of kind      *)
(* SerdeError and without the raw text; InvalidEventData with the text of  *)
(* the chunk is given for a non-empty chunk that does not begin with       *)
(* "data: ".  Neither is dropped.                                          *)
C17_PayloadErrorIsSerdeError ==
    [][Len(chunks') = Len(chunks) + 1 /\ sst' # "panicked" =>
          LET c == chunks'[Len(chunks')] IN
          /\ StartsWithData(c)
               /\ (\A f \in FragmentIds : TrimWhitespace(TrimStartMatches(c)) # Halves[f]) =>
                  items' = Append(items, Err(SerdeError("from_str")))
          /\ c # << >> /\ ~StartsWithData(c) =>
                  items' = Append(items, Err(InvalidEventData(c)))
      ]_allVars

C17_Witness ==
    /\ sst = "done"
    /\ reply.v.body = Frame(Junk)
    /\ chunks = <<Frame(Junk)>>
    /\ items = <<Err(SerdeError("from_str"))>>

(* C18: the clean end of the byte stream ends the decoded sequence: the    *)
(* step that ends it adds no item, and none is added after it.             *)
C18_CleanEndNoItem ==
    [][/\ sst = "open" /\ sst' = "done" => wire = << >> /\ items' = items
       /\ sst = "done" => sst' = "done" /\ items' = items
      ]_allVars

C18_Witness ==
    /\ sst = "done"
    /\ reply.v.body = Frame(Halves["a"]) \o Frame(Halves["b"])
    /\ chunks = <<Frame(Halves["a"]), Frame(Halves["b"])>>
    /\ items = <<Ok(Fragment("a")), Ok(Fragment("b"))>>

(* C19 as stated: stream never panics; a transport failure, a 429 reply,   *)
(* another rejected reply and undecodable bytes each give an Err item of   *)
(* their kind.                                                             *)
C19_FailuresSurface ==
    /\ sst # "panicked"
    /\ reply.some /\ reply.v.kind = "transport" =>
          items = <<Err(ReqwestError("send"))>>
    /\ reply.some /\ reply.v.kind = "http" /\ reply.v.status = 429 /\ sst = "done" =>
          items = <<Err(RateLimit)>>
    /\ reply.some /\ reply.v.kind = "http" /\ reply.v.status = 500 /\ sst = "done" =>
          /\ Len(items) = 1
          /\ ~items[1].ok
          /\ items[1].err.kind = "InvalidRequestError"

-----------------------------------------------------------------------------
(* ToolBuilder (src/src/messages/tools.rs 65-158)                           *)

BuilderNames == {"test_tool", "other_tool"}
BuilderDescriptions == {"This is a test tool.", "d2"}
BuilderShapes == Shapes \cup {"TestParams"}
BuilderHandlers == Handlers \cup {"test_tool_handler"}

(* the schema handler and props store: the root schema of T as a JSON      *)
(* value, its title removed                                                *)
SchemaParameters(T) == RemoveTitle(RootSchemaFor(T))

(* ToolBuilder::name *)
BuilderName(b, n) == [b EXCEPT !.name = Some(n)]

(* ToolBuilder::description *)
BuilderDescription(b, d) == [b EXCEPT !.description = Some(d)]

(* ToolBuilder::handler: sets parameters from the handler's input type and the handler *)
BuilderHandler(b, h) ==
    [b EXCEPT !.parameters = Some(SchemaParameters(HandlerInput(h))),
              !.handler = Some(h)]

(* ToolBuilder::props: sets parameters only *)
BuilderProps(b, T) == [b EXCEPT !.parameters = Some(SchemaParameters(T))]

(* mutant: the description is looked at before the name *)
BuilderBuild_DescriptionFirst(b) ==
    IF ~b.description.some THEN Err("MissingDescription")
    ELSE IF ~b.name.some THEN Err("MissingName")
    ELSE IF ~b.parameters.some THEN Err("MissingParameters")
    ELSE Ok([name |-> b.name.v, description |-> b.description.v,
             parameters |-> b.parameters.v, handler |-> b.handler])

(* ToolBuilder::build *)
BuilderBuild(b) ==
    IF ~b.name.some THEN Err("MissingName")
    ELSE IF ~b.description.some THEN Err("MissingDescription")
    ELSE IF ~b.parameters.some THEN Err("MissingParameters")
    ELSE Ok([name |-> b.name.v, description |-> b.description.v,
             parameters |-> b.parameters.v, handler |-> b.handler])

SetName ==
    /\ ~tbOut.some
    /\ \E n \in BuilderNames :
          /\ tb' = BuilderName(tb, n)
          /\ tbSet' = [tbSet EXCEPT !.name = Some(n)]
    /\ UNCHANGED tbOut
    /\ UNCHANGED <<vars, chatVars, streamVars, ctxVars, reqVars, fileVars>>

SetDescription ==
    /\ ~tbOut.some
    /\ \E d \in BuilderDescriptions :
          /\ tb' = BuilderDescription(tb, d)
          /\ tbSet' = [tbSet EXCEPT !.description = Some(d)]
    /\ UNCHANGED tbOut
    /\ UNCHANGED <<vars, chatVars, streamVars, ctxVars, reqVars, fileVars>>

SetHandler ==
    /\ ~tbOut.some
    /\ \E h \in BuilderHandlers :
          /\ tb' = BuilderHandler(tb, h)
          /\ tbSet' = [tbSet EXCEPT !.shape = Some(HandlerInput(h)), !.handler = Some(h)]
    /\ UNCHANGED tbOut
    /\ UNCHANGED <<vars, chatVars, streamVars, ctxVars, reqVars, fileVars>>

SetProps ==
    /\ ~tbOut.some
    /\ \E T \in BuilderShapes :
          /\ tb' = BuilderProps(tb, T)
          /\ tbSet' = [tbSet EXCEPT !.shape = Some(T)]
    /\ UNCHANGED tbOut
    /\ UNCHANGED <<vars, chatVars, streamVars, ctxVars, reqVars, fileVars>>

(* build(self): the builder is consumed *)
Build ==
    /\ ~tbOut.some
    /\ tbOut' = Some(BuilderBuild(tb))
    /\ UNCHANGED <<tb, tbSet>>
    /\ UNCHANGED <<vars, chatVars, streamVars, ctxVars, reqVars, fileVars>>

BuildNext ==
    \/ SetName
    \/ SetDescription
    \/ SetHandler
    \/ SetProps
    \/ Build

SpecBuild == Init /\ [][BuildNext]_allVars

(* the schema the test expects of TestParams, with the format schemars     *)
(* gives an i32                                                            *)
TestParamsSchema ==
    JObj({ <<"type", JStr(Text("object"))>>,
           <<"properties",
             JObj({ <<"foo", JObj({<<"type", JStr(Text("string"))>>})>>,
                    <<"bar", JObj({ <<"type", JStr(Text("integer"))>>,
                                    <<"format", JStr(Text("int32"))>> })>> })>>,
           <<"required", JArr(<<JStr(Text("bar")), JStr(Text("foo"))>>)>> })

(* the schema as the claim states it: the integer field has a type only *)
TestParamsSchemaTypesOnly ==
    JObj({ <<"type", JStr(Text("object"))>>,
           <<"properties",
             JObj({ <<"foo", JObj({<<"type", JStr(Text("string"))>>})>>,
                    <<"bar", JObj({<<"type", JStr(Text("integer"))>>})>> })>>,
           <<"required", JArr(<<JStr(Text("bar")), JStr(Text("foo"))>>)>> })

SchemaKeys ==
    {"type", "format", "description", "nullable", "enum", "properties", "required", "items"}

Keys(o) == {p[1] : p \in o.f}

(* the keys of a schema and of the schemas of its properties are allowed ones *)
OnlySchemaKeys(schema) ==
    /\ Keys(schema) \subseteq SchemaKeys
    /\ HasKey(schema, "properties") =>
          \A p \in Field(schema, "properties").f : Keys(p[2]) \subseteq SchemaKeys

(* C21 as stated: the schema of the record {foo: string, bar: integer} is  *)
(* exactly type object, properties foo: {type string}, bar: {type          *)
(* integer}, required [foo, bar], without a title.                         *)
C21_SchemaTypesOnly ==
    tbSet.shape = Some("TestParams") => tb.parameters = Some(TestParamsSchemaTypesOnly)

(* C21: for TestParams { foo: String, bar: i32 } the parameters set by     *)
(* handler or props are exactly type object, properties foo: {type         *)
(* string}, bar: {type integer, format int32}, required [bar, foo]; the    *)
(* parameters of every shape have no title and no key outside the allowed  *)
(* ones, and build hands them on unchanged.                                *)
C21_SchemaOfTestParams ==
    /\ tbSet.shape = Some("TestParams") => tb.parameters = Some(TestParamsSchema)
    /\ tb.parameters.some =>
          /\ ~HasKey(tb.parameters.v, "title")
          /\ OnlySchemaKeys(tb.parameters.v)
    /\ tbOut.some /\ tbOut.v.ok => tbOut.v.val.parameters = tb.parameters.v

C21_Witness ==
    /\ tbOut.some
    /\ tbOut.v.ok
    /\ tbSet.handler = Some("test_tool_handler")
    /\ tbSet.shape = Some("TestParams")
    /\ tbOut.v.val.parameters = TestParamsSchema

(* C25: build returns MissingName when no name was set, else               *)
(* MissingDescription when no description was set, else MissingParameters  *)
(* when neither handler nor props was called, else a Tool with the last    *)
(* name and description set, the parameters of the last handler or props   *)
(* call and the last handler set.                                          *)
C25_BuildResult ==
    tbOut.some =>
        tbOut.v =
            IF ~tbSet.name.some THEN Err("MissingName")
            ELSE IF ~tbSet.description.some THEN Err("MissingDescription")
            ELSE IF ~tbSet.shape.some THEN Err("MissingParameters")
            ELSE Ok([name |-> tbSet.name.v,
                     description |-> tbSet.description.v,
                     parameters |-> JObj({p \in RootSchemaFor(tbSet.shape.v).f : p[1] # "title"}),
                     handler |-> tbSet.handler])

C25_Witness ==
    /\ tbOut.some
    /\ tbOut.v.ok
    /\ tbSet.handler.some
    /\ tbSet.shape.v # HandlerInput(tbSet.handler.v)
    /\ tbOut.v.val.name = "other_tool"

-----------------------------------------------------------------------------
(* GenerateContentRequestBuilder (src/src/messages/mod.rs 36-139)           *)

MaxTurns == 2       \* most turns given to the request builder

Turns == {ContentFromStr("hi"), Content("model", <<TextPart("t")>>)}
Models == {"gemini-1.5-flash", "gemini-1.5-pro"}

(* Contents::is_empty: self.len() == 0 *)
ContentsIsEmpty(cs) == Len(cs) = 0

(* with_contents: self.contents = Some(contents.into()) *)
RequestWithContents(b, cs) == [b EXCEPT !.contents = Some(cs)]

(* with_content: the turn is added to the contents set so far, or to empty ones *)
RequestWithContent(b, c) ==
    [b EXCEPT !.contents = Some(WithContent(IF b.contents.some THEN b.contents.v ELSE << >>, c))]

(* with_model *)
RequestWithModel(b, m) == [b EXCEPT !.model = Some(m)]

(* with_system_instruction *)
RequestWithSystemInstruction(b, c) == [b EXCEPT !.system_instruction = Some(c)]

(* mutant: the model is looked at before the contents *)
RequestBuild_ModelFirst(b) ==
    IF ~b.model.some THEN Err("MissingModel")
    ELSE IF ~b.contents.some THEN Err("MissingContent")
    ELSE IF ContentsIsEmpty(b.contents.v) THEN Err("MissingContent")
    ELSE Ok([contents |-> b.contents.v, model |-> b.model.v,
             system_instruction |-> b.system_instruction])

(* GenerateContentRequestBuilder::build *)
RequestBuild(b) ==
    IF ~b.contents.some THEN Err("MissingContent")
    ELSE IF ContentsIsEmpty(b.contents.v) THEN Err("MissingContent")
    ELSE IF ~b.model.some THEN Err("MissingModel")
    ELSE Ok([contents |-> b.contents.v, model |-> b.model.v,
             system_instruction |-> b.system_instruction])

WithContents ==
    /\ ~rbOut.some
    /\ \E cs \in SeqsUpTo(Turns, MaxTurns) : rb' = RequestWithContents(rb, cs)
    /\ UNCHANGED rbOut
    /\ UNCHANGED <<vars, chatVars, streamVars, ctxVars, buildVars, fileVars>>

WithOneContent ==
    /\ ~rbOut.some
    /\ rb.contents.some => Len(rb.contents.v) < MaxTurns
    /\ \E c \in Turns : rb' = RequestWithContent(rb, c)
    /\ UNCHANGED rbOut
    /\ UNCHANGED <<vars, chatVars, streamVars, ctxVars, buildVars, fileVars>>

WithModel ==
    /\ ~rbOut.some
    /\ \E m \in Models : rb' = RequestWithModel(rb, m)
    /\ UNCHANGED rbOut
    /\ UNCHANGED <<vars, chatVars, streamVars, ctxVars, buildVars, fileVars>>

WithSystemInstruction ==
    /\ ~rbOut.some
    /\ \E c \in Turns : rb' = RequestWithSystemInstruction(rb, c)
    /\ UNCHANGED rbOut
    /\ UNCHANGED <<vars, chatVars, streamVars, ctxVars, buildVars, fileVars>>

(* build(self) *)
BuildRequest ==
    /\ ~rbOut.some
    /\ rbOut' = Some(RequestBuild(rb))
    /\ UNCHANGED rb
    /\ UNCHANGED <<vars, chatVars, streamVars, ctxVars, buildVars, fileVars>>

RequestNext ==
    \/ WithContents
    \/ WithOneContent
    \/ WithModel
    \/ WithSystemInstruction
    \/ BuildRequest

SpecRequest == Init /\ [][RequestNext]_allVars

(* at least one turn has been set *)
HasTurn == rb.contents.some /\ rb.contents.v # << >>

(* C24: build returns a request exactly when at least one turn and a model *)
(* have been set; with no turn it returns MissingContent whether or not a  *)
(* model is set, with a turn and no model MissingModel; the request holds  *)
(* the turns and the model set.                                            *)
C24_BuildRequest ==
    rbOut.some =>
        /\ rbOut.v.ok <=> HasTurn /\ rb.model.some
        /\ ~HasTurn => rbOut.v = Err("MissingContent")
        /\ HasTurn /\ ~rb.model.some => rbOut.v = Err("MissingModel")
        /\ rbOut.v.ok =>
              /\ rbOut.v.val.contents = rb.contents.v
              /\ rbOut.v.val.model = rb.model.v

C24_Witness ==
    /\ rbOut = Some(Err("MissingContent"))
    /\ rb.contents = Some(<< >>)
    /\ ~rb.model.some

-----------------------------------------------------------------------------
(* FileUploadRequestBuilder and FileUploadRequest (src/src/files/mod.rs)    *)

(* the file system: one file that can be read, one path with no file       *)
(* behind it, one path without a file name                                 *)
Paths == {"docs/test.txt", "img/missing.png", ".."}
FileNames == {"blob", "note.txt"}
MimeTypes == {"application/custom"}
DataValues == {<<"D">>}

(* path.file_name().and_then(|n| n.to_str()) *)
PathFileName(path) ==
    CASE path = "docs/test.txt" -> Some("test.txt")
      [] path = "img/missing.png" -> Some("missing.png")
      [] OTHER -> None

(* File::open(&path) and read_to_end *)
ReadFile(path) ==
    IF path = "docs/test.txt" THEN Ok(<<"T">>) ELSE Err([kind |-> "Io"])

(* mime_guess::from_path(p).first_or_octet_stream().to_string() *)
MimeGuess(p) ==
    CASE p \in {"docs/test.txt", "test.txt", "note.txt"} -> "text/plain"
      [] p \in {"img/missing.png", "missing.png"} -> "image/png"
      [] OTHER -> "application/octet-stream"

(* the InvalidRequestError the builder and send make: a message only *)
MessageError(m) == InvalidRequestError(None, EmptyObject, Text(m), None)

(* mutant: the data is looked at before the path *)
FileBuild_DataFirst(b) ==
    IF b.data.some
    THEN IF ~b.file_name.some
         THEN Err(MessageError("File name is required when using raw data"))
         ELSE Ok([file_name |-> b.file_name.v,
                  mime_type |-> IF b.mime_type.some THEN b.mime_type.v
                                ELSE MimeGuess(b.file_name.v),
                  data |-> b.data.v])
    ELSE IF b.path.some
    THEN IF ~PathFileName(b.path.v).some THEN Err(MessageError("Invalid file name"))
         ELSE IF ~ReadFile(b.path.v).ok THEN ReadFile(b.path.v)
         ELSE Ok([file_name |-> PathFileName(b.path.v).v,
                  mime_type |-> IF b.mime_type.some THEN b.mime_type.v
                                ELSE MimeGuess(b.path.v),
                  data |-> ReadFile(b.path.v).val])
    ELSE Err(MessageError("Either path or data must be provided"))

(* FileUploadRequestBuilder::build *)
FileBuild(b) ==
    IF b.path.some
    THEN IF ~PathFileName(b.path.v).some THEN Err(MessageError("Invalid file name"))
         ELSE IF ~ReadFile(b.path.v).ok THEN ReadFile(b.path.v)
         ELSE Ok([file_name |-> PathFileName(b.path.v).v,
                  mime_type |-> IF b.mime_type.some THEN b.mime_type.v
                                ELSE MimeGuess(b.path.v),
                  data |-> ReadFile(b.path.v).val])
    ELSE IF b.data.some
    THEN IF ~b.file_name.some
         THEN Err(MessageError("File name is required when using raw data"))
         ELSE Ok([file_name |-> b.file_name.v,
                  mime_type |-> IF b.mime_type.some THEN b.mime_type.v
                                ELSE MimeGuess(b.file_name.v),
                  data |-> b.data.v])
    ELSE Err(MessageError("Either path or data must be provided"))

(* with_file_name, with_mime_type, with_data, with_path *)
FileSet ==
    /\ fpc = "building"
    /\ \/ \E n \in FileNames : fb' = [fb EXCEPT !.file_name = Some(n)]
       \/ \E m \in MimeTypes : fb' = [fb EXCEPT !.mime_type = Some(m)]
       \/ \E d \in DataValues : fb' = [fb EXCEPT !.data = Some(d)]
       \/ \E q \in Paths : fb' = [fb EXCEPT !.path = Some(q)]
    /\ UNCHANGED <<fbOut, fpc, flog, fres>>
    /\ UNCHANGED <<vars, chatVars, streamVars, ctxVars, buildVars, reqVars>>

(* build(self) *)
FileBuildStep ==
    /\ fpc = "building"
    /\ fbOut' = Some(FileBuild(fb))
    /\ fpc' = IF FileBuild(fb).ok THEN "built" ELSE "failed"
    /\ UNCHANGED <<fb, flog, fres>>
    /\ UNCHANGED <<vars, chatVars, streamVars, ctxVars, buildVars, reqVars>>

(* the replies to the start request: none, or headers with or without      *)
(* X-Goog-Upload-URL                                                        *)
StartReplies ==
    { [kind |-> "transport"],
      [kind |-> "http", url |-> None],
      [kind |-> "http", url |-> Some("https://upload/1")] }

(* the replies to the upload request: none, a body that is not JSON, JSON  *)
(* with or without file.uri                                                *)
UploadReplies ==
    { [kind |-> "transport"],
      [kind |-> "http", body |-> NotJson],
      [kind |-> "http", body |-> [kind |-> "json", uri |-> JNull]],
      [kind |-> "http", body |-> [kind |-> "json", uri |-> JInt(7)]],
      [kind |-> "http", body |-> [kind |-> "json", uri |-> JStr(Text("https://files/abc"))]] }

(* mutant: a reply without the header is given an upload URL all the same *)
UploadUrl_Fallback(rep) == IF rep.url.some THEN rep.url ELSE Some("https://upload/default")

(* init_response.headers().get("X-Goog-Upload-URL").and_then(|h| h.to_str().ok()) *)
UploadUrl(rep) == rep.url

(* the first request of send, command "start", and what its reply leads to *)
SendStart ==
    /\ fpc = "built"
    /\ \E rep \in StartReplies :
          /\ flog' = Append(flog, [command |-> "start", reply |-> rep])
          /\ IF rep.kind = "transport"
             THEN /\ fres' = Some(Err(ReqwestError("send")))
                  /\ fpc' = "returned"
             ELSE IF ~UploadUrl(rep).some
             THEN /\ fres' = Some(Err(MessageError("Missing upload URL in response")))
                  /\ fpc' = "returned"
             ELSE /\ fres' = fres
                  /\ fpc' = "upload"
    /\ UNCHANGED <<fb, fbOut>>
    /\ UNCHANGED <<vars, chatVars, streamVars, ctxVars, buildVars, reqVars>>

(* the second request of send, command "upload, finalize", to the upload   *)
(* URL, and the result made of its reply                                   *)
SendUpload ==
    /\ fpc = "upload"
    /\ \E rep \in UploadReplies :
          /\ flog' = Append(flog, [command |-> "upload, finalize",
                                   url |-> UploadUrl(flog[Len(flog)].reply).v,
                                   reply |-> rep])
          /\ fres' = Some(IF rep.kind = "transport" THEN Err(ReqwestError("send"))
                          ELSE IF rep.body.kind # "json" THEN Err(ReqwestError("decode"))
                          ELSE IF ~AsStr(rep.body.uri).some
                               THEN Err(MessageError("Missing file URI in response"))
                          ELSE Ok(AsStr(rep.body.uri).v))
    /\ fpc' = "returned"
    /\ UNCHANGED <<fb, fbOut>>
    /\ UNCHANGED <<vars, chatVars, streamVars, ctxVars, buildVars, reqVars>>

FileNext ==
    \/ FileSet
    \/ FileBuildStep
    \/ SendStart
    \/ SendUpload

SpecFiles == Init /\ [][FileNext]_allVars

(* C26: build fails when neither path nor data is set, and when data is    *)
(* set without a file name and without a path; with path and data both     *)
(* set the file name and the bytes are those of the path (and a path that  *)
(* cannot be read fails the build); a mime type that was set is the mime   *)
(* type of the request.                                                    *)
C26_BuildFile ==
    fbOut.some =>
        /\ ~fb.path.some /\ ~fb.data.some => ~fbOut.v.ok
        /\ ~fb.path.some /\ fb.data.some /\ ~fb.file_name.some => ~fbOut.v.ok
        /\ fb.path.some /\ fb.data.some =>
              IF fb.path.v = "docs/test.txt"
              THEN /\ fbOut.v.ok
                   /\ fbOut.v.val.file_name = "test.txt"
                   /\ fbOut.v.val.data = <<"T">>
              ELSE ~fbOut.v.ok
        /\ fbOut.v.ok /\ fb.mime_type.some => fbOut.v.val.mime_type = fb.mime_type.v

C26_Witness ==
    /\ fbOut.some
    /\ fbOut.v.ok
    /\ fb.path.some
    /\ fb.data.some
    /\ fb.file_name = Some("note.txt")
    /\ fb.mime_type.some
    /\ fbOut.v.val.file_name = "test.txt"

(* the start request got a reply that holds an upload URL *)
StartGaveUrl ==
    /\ Len(flog) >= 1
    /\ flog[1].command = "start"
    /\ flog[1].reply.kind = "http"
    /\ flog[1].reply.url.some

(* C27: the upload request is issued only as the second request, after a   *)
(* start request whose reply held an upload URL, and to that URL; when the *)
(* start request fails or its reply holds no URL, send returns an error    *)
(* and issues no upload request; a file URI is returned only when the      *)
(* reply to the upload request holds one.                                  *)
C27_StartThenUpload ==
    /\ Len(flog) <= 2
    /\ \A n \in 1..Len(flog) :
          flog[n].command = "upload, finalize" =>
              /\ n = 2
              /\ StartGaveUrl
              /\ flog[n].url = flog[1].reply.url.v
    /\ Len(flog) >= 1 /\ ~StartGaveUrl =>
          /\ Len(flog) = 1
          /\ fres.some
          /\ ~fres.v.ok
    /\ fres.some /\ fres.v.ok =>
          /\ Len(flog) = 2
          /\ flog[2].command = "upload, finalize"
          /\ flog[2].reply.kind = "http"
          /\ flog[2].reply.body.kind = "json"
          /\ flog[2].reply.body.uri = JStr(fres.v.val)

C27_Witness ==
    /\ fres.some
    /\ fres.v.ok
    /\ Len(flog) = 2
    /\ flog[2].url = "https://upload/1"

-----------------------------------------------------------------------------
(* The registry: keys and the serialised declaration list *)

(* one {name, description, parameters} entry per registered tool *)
OneEntryPerTool ==
    /\ ev.out.t = "obj"
    /\ Cardinality(ev.out.f) = 1
    /\ \A p \in ev.out.f :
          /\ p[2].t = "arr"
          /\ Len(p[2].a) = Cardinality(DOMAIN tools)
          /\ \A n \in DOMAIN tools :
                \E j \in 1..Len(p[2].a) :
                    /\ Keys(p[2].a[j]) = {"name", "description", "parameters"}
                    /\ Field(p[2].a[j], "name") = JStr(Text(n))
                    /\ Field(p[2].a[j], "description") = JStr(Text(tools[n].description))
                    /\ Field(p[2].a[j], "parameters") = tools[n].parameters

(* C22: the serialised registry is an object with the single key           *)
(* "functionDeclarations" holding one {name, description, parameters}      *)
(* entry per tool of the registry at that moment, without the handler.     *)
C22_FunctionDeclarations ==
    ev.op = "serialize" =>
        /\ OneEntryPerTool
        /\ Keys(ev.out) = {"functionDeclarations"}

(* C28: every entry of the registry is stored under its tool's own name,   *)
(* and the response of a dispatch that found a tool with a handler carries *)
(* the name of the call.                                                   *)
C28_KeyIsName ==
    /\ \A n \in DOMAIN tools : tools[n].name = n
    /\ (Dispatched /\ ev.out.some) => ev.out.v.name = ev.call.name

C28_Witness ==
    /\ Dispatched
    /\ ev.out.some
    /\ ev.out.v.name = ev.call.name
    /\ Cardinality(DOMAIN tools) = 2
    /\ tools[ev.call.name].description = "d2"

-----------------------------------------------------------------------------
(* ToolContext shared between clones and threads.                          *)
(* heap[a] is the HashMap in the allocation a of an Arc<Mutex<HashMap>>,   *)
(* mutex[a] the thread that holds its lock (0: free), handles[h] the       *)
(* allocation the ToolContext value h points to, root[h] the value h was   *)
(* cloned from in the first place.  HashMap::insert is not one step of the *)
(* machine: it reads the table, then writes it, and torn[a] holds between  *)
(* the two.  seen[t] is what the get_resource call of thread t has read,   *)
(* tlocal[t] the table the insert of thread t has read.                    *)

Addrs == DOMAIN heap

(* mutant: lock() that never waits *)
LockFree_NoExclusion(mx, a) == TRUE

(* Mutex::lock returns once no other thread holds the lock *)
LockFree(mx, a) == mx[a] = 0

(* mutant: clone copies the map into an allocation of its own *)
CloneOf_Snapshot(hp, a) ==
    [addr |-> Cardinality(DOMAIN hp) + 1,
     heap |-> [x \in DOMAIN hp \cup {Cardinality(DOMAIN hp) + 1} |->
                  IF x \in DOMAIN hp THEN hp[x] ELSE hp[a]]]

(* #[derive(Clone)] on ToolContext: Arc::clone, the same allocation *)
CloneOf(hp, a) == [addr |-> a, heap |-> hp]

(* ToolContext::default(): a new allocation holding an empty map *)
DefaultContext(hp) ==
    [addr |-> Cardinality(DOMAIN hp) + 1,
     heap |-> [x \in DOMAIN hp \cup {Cardinality(DOMAIN hp) + 1} |->
                  IF x \in DOMAIN hp THEN hp[x] ELSE EmptyMap]]

(* torn and mutex follow the allocations *)
Grown(f, hp, zero) == [x \in DOMAIN hp |-> IF x \in DOMAIN f THEN f[x] ELSE zero]

CtxOps ==
    { [op |-> o, h |-> h, ty |-> T] :
        o \in {"push_resource", "get_resource"}, h \in DOMAIN handles, T \in ResTypes }

(* context.clone(), tools.clone(), and self.context.clone() in Tools::invoke *)
CtxClone ==
    \E h \in DOMAIN handles :
        LET c == CloneOf(heap, handles[h]) IN
        /\ Len(handles) < MaxHandles
        /\ heap' = c.heap
        /\ torn' = Grown(torn, c.heap, FALSE)
        /\ mutex' = Grown(mutex, c.heap, 0)
        /\ handles' = Append(handles, c.addr)
        /\ root' = Append(root, root[h])
        /\ UNCHANGED <<tpc, top, tlocal, seen, done>>
        /\ UNCHANGED <<vars, chatVars, streamVars, buildVars, reqVars, fileVars>>

(* ToolContext::default() / Tools::default() *)
CtxNew ==
    LET c == DefaultContext(heap) IN
    /\ Len(handles) < MaxHandles
    /\ heap' = c.heap
    /\ torn' = Grown(torn, c.heap, FALSE)
    /\ mutex' = Grown(mutex, c.heap, 0)
    /\ handles' = Append(handles, c.addr)
    /\ root' = Append(root, Len(handles) + 1)
    /\ UNCHANGED <<tpc, top, tlocal, seen, done>>
    /\ UNCHANGED <<vars, chatVars, streamVars, buildVars, reqVars, fileVars>>

(* self.resources.lock().unwrap() at the start of push_resource and of     *)
(* get_resource                                                            *)
CtxLock ==
    \E t \in Threads, o \in CtxOps :
        /\ tpc[t] = "idle"
        /\ LockFree(mutex, handles[o.h])
        /\ mutex' = [mutex EXCEPT ![handles[o.h]] = t]
        /\ top' = [top EXCEPT ![t] = Some(o)]
        /\ tpc' = [tpc EXCEPT ![t] = "locked"]
        /\ UNCHANGED <<heap, torn, handles, root, tlocal, seen, done>>
        /\ UNCHANGED <<vars, chatVars, streamVars, buildVars, reqVars, fileVars>>

(* insert(..), first half: the table is read *)
CtxInsertRead ==
    \E t \in Threads :
        /\ tpc[t] = "locked"
        /\ top[t].v.op = "push_resource"
        /\ tlocal' = [tlocal EXCEPT ![t] = heap[handles[top[t].v.h]]]
        /\ torn' = [torn EXCEPT ![handles[top[t].v.h]] = TRUE]
        /\ tpc' = [tpc EXCEPT ![t] = "inserting"]
        /\ UNCHANGED <<heap, mutex, handles, root, top, seen, done>>
        /\ UNCHANGED <<vars, chatVars, streamVars, buildVars, reqVars, fileVars>>

(* insert(..), second half: the table with the new entry is written *)
CtxInsertWrite ==
    \E t \in Threads :
        LET o == top[t].v
            a == handles[o.h] IN
        /\ tpc[t] = "inserting"
        /\ heap' = [heap EXCEPT ![a] = PushResource(tlocal[t], o.ty, 1)]
        /\ torn' = [torn EXCEPT ![a] = FALSE]
        /\ done' = done \cup {[root |-> root[o.h], addr |-> a, key |-> TypeIdOf(o.ty)]}
        /\ tpc' = [tpc EXCEPT ![t] = "unlock"]
        /\ UNCHANGED <<mutex, handles, root, top, tlocal, seen>>
        /\ UNCHANGED <<vars, chatVars, streamVars, buildVars, reqVars, fileVars>>

(* get(&TypeId::of::<T>()).and_then(downcast_ref) under the lock *)
CtxGet ==
    \E t \in Threads :
        LET o == top[t].v
            a == handles[o.h] IN
        /\ tpc[t] = "locked"
        /\ o.op = "get_resource"
        /\ seen' = [seen EXCEPT ![t] = Some([torn |-> torn[a],
                                             keys |-> DOMAIN heap[a],
                                             out |-> GetResource(heap[a], o.ty)])]
        /\ tpc' = [tpc EXCEPT ![t] = "unlock"]
        /\ UNCHANGED <<heap, torn, mutex, handles, root, top, tlocal, done>>
        /\ UNCHANGED <<vars, chatVars, streamVars, buildVars, reqVars, fileVars>>

(* the MutexGuard is dropped at the end of the statement *)
CtxUnlock ==
    \E t \in Threads :
        /\ tpc[t] = "unlock"
        /\ mutex' = [mutex EXCEPT ![handles[top[t].v.h]] = 0]
        /\ top' = [top EXCEPT ![t] = None]
        /\ tlocal' = [tlocal EXCEPT ![t] = EmptyMap]
        /\ seen' = [seen EXCEPT ![t] = None]
        /\ tpc' = [tpc EXCEPT ![t] = "idle"]
        /\ UNCHANGED <<heap, torn, handles, root, done>>
        /\ UNCHANGED <<vars, chatVars, streamVars, buildVars, reqVars, fileVars>>

CtxNext ==
    \/ CtxClone
    \/ CtxNew
    \/ CtxLock
    \/ CtxInsertRead
    \/ CtxInsertWrite
    \/ CtxGet
    \/ CtxUnlock

SpecCtx == Init /\ [][CtxNext]_allVars

(* the threads inside a call on allocation a, the lock taken *)
Inside(a) ==
    {t \in Threads : tpc[t] # "idle" /\ handles[top[t].v.h] = a}

(* C23: the calls on one map exclude each other: at most one thread is     *)
(* inside a call on an allocation, every insertion that has completed is   *)
(* still in the map (no insertion is lost to a concurrent one), and no     *)
(* get_resource has read a map in the middle of an insertion.              *)
C23_LockProtected ==
    /\ \A a \in Addrs : Cardinality(Inside(a)) <= 1
    /\ \A d \in done : d.key \in DOMAIN heap[d.addr]
    /\ \A t \in Threads : seen[t].some => ~seen[t].v.torn

(* both threads have inserted, different types, into one map, and one has  *)
(* read it since                                                           *)
C23_Witness ==
    /\ \E a \in Addrs :
          /\ Cardinality({d \in done : d.addr = a}) = 2
          /\ Cardinality(DOMAIN heap[a]) = 2
          /\ \E t \in Threads :
                /\ seen[t].some
                /\ handles[top[t].v.h] = a
                /\ Cardinality(seen[t].v.keys) = 2

(* C29: the ToolContext values cloned from one another point to one map:   *)
(* an entry inserted through one of them is in the map of each of them.    *)
C29_ClonesAlias ==
    /\ \A h1, h2 \in DOMAIN handles : root[h1] = root[h2] => handles[h1] = handles[h2]
    /\ \A d \in done : \A h \in DOMAIN handles :
          root[h] = d.root => d.key \in DOMAIN heap[handles[h]]

(* an insertion through a clone, three values of one lineage, and a        *)
(* context of another lineage that does not hold the entry                 *)
C29_Witness ==
    \E d \in done :
        /\ Cardinality({h \in DOMAIN handles : root[h] = d.root}) >= 2
        /\ \E h \in DOMAIN handles : root[h] # d.root /\ d.key \notin DOMAIN heap[handles[h]]
        /\ \E t \in Threads : top[t].some /\ top[t].v.h # d.root /\ root[top[t].v.h] = d.root
                                 /\ tpc[t] = "unlock" /\ top[t].v.op = "push_resource"
                                 /\ top[t].v.ty = d.key[1]

-----------------------------------------------------------------------------
(* C30: a response with a candidate converts to a turn of role model with  *)
(* the parts of the first candidate in their order, whatever role that     *)
(* candidate records and whatever candidates follow; on a response without *)
(* candidates content() is None and get_function_calls() is empty.         *)
C30_TurnOfFirstCandidate ==
    probe.some =>
        IF Len(probe.v.resp.candidates) = 0
        THEN /\ probe.v.content = None
             /\ probe.v.calls = << >>
        ELSE /\ probe.v.converted.ok
             /\ probe.v.converted.val.role = "model"
             /\ probe.v.converted.val.parts = probe.v.resp.candidates[1].content.parts

(* a candidate recorded as user with three parts, followed by another *)
C30_Witness ==
    /\ probe.some
    /\ Len(probe.v.resp.candidates) = 2
    /\ probe.v.resp.candidates[1].content.role = "user"
    /\ Len(probe.v.resp.candidates[1].content.parts) = 3
    /\ probe.v.resp.candidates[1].content.parts[1] # probe.v.resp.candidates[1].content.parts[2]
    /\ probe.v.converted.ok
    /\ probe.v.converted.val.role = "model"

====
